---- MODULE Spec2Model ----
(***************************************************************************)
(* Lead-generation pipeline of LeadGeneration/lead_generation.py (class    *)
(* LeadGenerator, thread pool) and lead_generation_with_agent.py (class    *)
(* GlobalLeadGenerator, sequential coroutine).                             *)
(*                                                                         *)
(* Strings the code computes on (company names, host names, e-mail         *)
(* addresses) are sequences of one-character strings, so lower(),          *)
(* replace(), split() and the substring test are computed, not assumed.    *)
(* A URL is a record [host, path]: f"https://{prefix}{name}.{domain}" is   *)
(* [host |-> prefix \o name \o "." \o domain, path |-> ""].                *)
(***************************************************************************)
EXTENDS Integers, Sequences, FiniteSets, TLC

VARIABLES
    tasks,           \* the submitted (company, category) pairs, in submission order
    web,             \* the world outside: [live: the URLs whose server answers HEAD with 200,
                     \*   pages: the documents a GET may return, search: the result pages
                     \*   of the web search, profiles: what the LinkedIn search may find]
    processed_urls,  \* self.processed_urls
    head_requests,   \* network layer: number of HEAD requests issued per URL
    pc,              \* per task: position inside get_company_info
    frame,           \* per task: local variables of get_company_info and its callees
    main_pc,         \* position of main() / generate_leads()
    submitted,       \* number of futures created by executor.submit
    collected,       \* futures whose result() generate_leads has consumed
    all_leads,       \* generate_leads' all_leads list
    csv,             \* the table written by save_to_csv / save_leads_to_csv
    service_i,       \* GlobalLeadGenerator.generate_leads: services handled so far
    extracted        \* the last call of extract_emails_from_page made on its own

vars == <<tasks, web, processed_urls, head_requests, pc, frame,
          main_pc, submitted, collected, all_leads, csv, service_i, extracted>>

-----------------------------------------------------------------------------
(* Bounds of the model *)

MaxTasks == 2

(* CONFIG tunables, kept small *)
max_threads == 2
max_emails_per_company == 2

None == "None"
NoUrl == [host |-> <<>>, path |-> "None"]

-----------------------------------------------------------------------------
(* str methods *)

Lower(c) ==
    CASE c = "A" -> "a"
      [] c = "B" -> "b"
      [] c = "I" -> "i"
      [] c = "N" -> "n"
      [] OTHER -> c

lower(s) == [i \in 1..Len(s) |-> Lower(s[i])]

(* s.replace(' ', with), with a string of length 0 or 1 *)
RECURSIVE replace_space(_, _)
replace_space(s, with) ==
    IF s = <<>> THEN <<>>
    ELSE (IF Head(s) = " " THEN with ELSE <<Head(s)>>) \o replace_space(Tail(s), with)

(* ''.join([word[0] for word in s.split()]) : the first character of every
   maximal run of non-blank characters *)
RECURSIVE initials(_, _)
initials(s, prev_blank) ==
    IF s = <<>> THEN <<>>
    ELSE IF Head(s) = " " THEN initials(Tail(s), TRUE)
    ELSE (IF prev_blank THEN <<Head(s)>> ELSE <<>>) \o initials(Tail(s), FALSE)

(* p in s *)
Contains(s, p) ==
    \E i \in 1..(Len(s) - Len(p) + 1) : SubSeq(s, i, i + Len(p) - 1) = p

Range(s) == {s[i] : i \in 1..Len(s)}

(* the lists a Python list(set) / set iteration of S may produce *)
Orderings(S) ==
    {s \in [1..Cardinality(S) -> S] : \A i, j \in 1..Cardinality(S) : s[i] = s[j] => i = j}

lower_all(list) == [i \in 1..Len(list) |-> lower(list[i])]

Prefix(s, n) == SubSeq(s, 1, IF Len(s) < n THEN Len(s) ELSE n)

-----------------------------------------------------------------------------
(* URLs *)

Url(host, path) == [host |-> host, path |-> path]

(* urljoin(base, path) for a path that starts with "/" *)
urljoin(base, path) == Url(base.host, path)

www == <<"w", "w", "w", ".">>
dot == <<".">>

-----------------------------------------------------------------------------
(* CONFIG lists (LeadGenerator receives them through config) *)

email_domains == << <<"i", "o">> >>
ignore_email_patterns == { <<"i", "n", "f", "o">>, <<"n", "o", "r", "e", "p", "l", "y">> }
contact_keywords == {"contact", "about", "team", "connect", "reach", "sales", "support", "help"}

(* find_contact_page's common_paths and get_company_info's deeper_pages *)
common_paths ==
    << "/contact", "/contact-us", "/contact.html", "/about/contact", "/connect",
       "/get-in-touch", "/contact-sales", "/demo-request", "/support", "/help",
       "/contacto", "/about-us", "/team" >>
deeper_pages == << "/about", "/team", "/company", "/leadership", "/people" >>

service_map(category) ==
    CASE category = "analytics" -> "analytics and conversion tracking"
      [] category = "abm" -> "account based marketing"
      [] category = "automation" -> "sales and marketing automation"
      [] OTHER -> category

-----------------------------------------------------------------------------
(* The inputs: company names, the URLs that exist, the pages served *)

A == <<"A">>
A_b == <<"A", " ", "b">>
io == <<"i", "o">>

u_ab == Url(<<"a", "b">> \o dot \o io, "")
u_a == Url(<<"a">> \o dot \o io, "")
u_a_b == Url(<<"a", "-", "b">> \o dot \o io, "")
u_off == Url(<<"a", "b", "h", "q">> \o dot \o io, "")

e_b == <<"b", "@", "x">>
e_B == <<"B", "@", "x">>
e_a == <<"a", "@", "x">>
e_c == <<"c", "@", "x">>
e_info == <<"i", "n", "f", "o", "@", "x">>
e_INFO == <<"I", "N", "f", "o", "@", "x">>

(* <a href=...>text</a>: href is a URL, relative when its host is empty; words are
   the lower-cased words of the text and the href that the keyword test looks at *)
Link(href, words) == [href |-> href, words |-> words]
l_contact == Link(Url(<<>>, "/contact"), {"contact"})
l_reach == Link(Url(<<>>, "/reach-us"), {"reach"})
l_reach_abs == Link(Url(u_a.host, "/reach-us"), {"reach"})
l_home == Link(u_a, {"about"})
l_pricing == Link(Url(<<>>, "/pricing"), {"pricing"})

(* a fetched document: its links, the addresses the e-mail regex finds in its
   text, its mailto: targets (the href after "mailto:"), the addresses found in
   its forms and in its contact-hinting elements *)
Page(links, text, mailto, form, elements) ==
    [links |-> links, text |-> text, mailto |-> mailto, form |-> form, elements |-> elements]
EmptyPage == Page({}, {}, {}, {}, {})

-----------------------------------------------------------------------------
(* LeadGenerator.get_company_domain: the candidate set *)

base_names(company_name) ==
    { replace_space(lower(company_name), <<>>),
      replace_space(lower(company_name), <<"-">>),
      lower(initials(company_name, TRUE)) }

variations(company_name) ==
    UNION { { Url(name \o dot \o email_domains[d], ""),
              Url(www \o name \o dot \o email_domains[d], "") } :
            name \in base_names(company_name), d \in DOMAIN email_domains }

-----------------------------------------------------------------------------
(* extract_emails_from_page, after the fetch *)

(* link['href'][7:].split('?')[0] *)
RECURSIVE split_query(_)
split_query(s) ==
    IF s = <<>> \/ Head(s) = "?" THEN <<>> ELSE <<Head(s)>> \o split_query(Tail(s))

(* re.match(email_regex, s): s starts with local@domain *)
email_regex_match(s) ==
    \E i \in 2..(Len(s) - 1) : s[i] = "@" /\ \A j \in 1..(i - 1) : s[j] \notin {"@", "?", " "}

mailto_emails(page) ==
    { split_query(m) : m \in { h \in page.mailto : email_regex_match(split_query(h)) } }

ignored_case_sensitive(email) == \E pattern \in ignore_email_patterns : Contains(email, pattern)

ignored(email) == \E pattern \in ignore_email_patterns : Contains(lower(email), pattern)

(* the lists LeadGenerator.extract_emails_from_page may return for a page *)
extract_emails(page) ==
    LET emails == page.text \cup mailto_emails(page) \cup page.form \cup page.elements
        filtered_emails == { email \in emails : ~ignored(email) }
    IN  { Prefix(o, max_emails_per_company) : o \in Orderings(filtered_emails) }

(* the addresses a joined emails field lists: field.split(', '), none for '' *)
RECURSIVE split_list(_)
split_list(s) ==
    IF \E i \in 1..(Len(s) - 1) : s[i] = "," /\ s[i + 1] = " "
    THEN LET i == CHOOSE k \in 1..(Len(s) - 1) :
                    /\ s[k] = "," /\ s[k + 1] = " "
                    /\ \A j \in 1..(k - 1) : ~(s[j] = "," /\ s[j + 1] = " ")
         IN  <<SubSeq(s, 1, i - 1)>> \o split_list(SubSeq(s, i + 2, Len(s)))
    ELSE <<s>>
listed(field) == IF field = <<>> THEN <<>> ELSE split_list(field)

(* ', '.join(all_emails) *)
RECURSIVE join(_)
join(list) ==
    IF list = <<>> THEN <<>>
    ELSE IF Len(list) = 1 THEN list[1]
    ELSE list[1] \o <<",", " ">> \o join(Tail(list))

(* GlobalLeadGenerator.extract_emails_from_page: three techniques, and the
   addresses that pass the filter are lower-cased *)
global_extract_emails(page) ==
    LET emails == page.text \cup mailto_emails(page) \cup page.form
        kept == { e \in emails : ~ignored(e) }
    IN  { Prefix(lower_all(o), max_emails_per_company) : o \in Orderings(kept) }

NoExtract == [by |-> None, page |-> EmptyPage, emails |-> <<>>, failed |-> FALSE, raised |-> FALSE]

-----------------------------------------------------------------------------
(* check_url_exists *)

Incr(f, u) ==
    [x \in DOMAIN f \cup {u} |-> IF x = u THEN (IF u \in DOMAIN f THEN f[u] ELSE 0) + 1 ELSE f[x]]

cache_hit_never(url) == FALSE

(* the block under self.lock *)
cache_hit(url) == url \in processed_urls
mark_processed_skipped(url) == processed_urls
mark_processed(url) == processed_urls \cup {url}

(* requests.head(...).status_code == 200; an exception is a False *)
head_status_200(url) == url \in web.live

-----------------------------------------------------------------------------
(* Local state of one get_company_info call *)

InitFrame ==
    [ todo |-> {}, queue |-> <<>>, i |-> 0, url |-> NoUrl,
      website |-> NoUrl, linkedin |-> None, contact_page |-> NoUrl,
      all_emails |-> <<>>, result |-> <<>>, slept |-> FALSE,
      ai_insights |-> None, emails |-> {},
      probes |-> 0, failed_common |-> 0, ok |-> {}, fetched_home |-> FALSE,
      runs |-> 0,
      cand_generated |-> {}, cand_probed |-> {}, cand_true |-> {}, late_probes |-> 0,
      searched |-> FALSE, search_accepted |-> NoUrl,
      true_for |-> <<>>,
      gathered |-> <<>>, deeper_probed |-> <<>>, deeper_true |-> {}, deeper_fetched |-> <<>> ]

Tasks == 1..Len(tasks)

Goto(t, label, fr) ==
    /\ pc' = [pc EXCEPT ![t] = label]
    /\ frame' = [frame EXCEPT ![t] = fr]

world == <<tasks, web, service_i, extracted>>
driver == <<main_pc, submitted, collected, all_leads, csv>>

-----------------------------------------------------------------------------
(* LeadGenerator.get_company_domain *)

(* the links of a search result page: the target after "url?q=", and whether the
   href names google.com or webcache *)
SearchLink(url, internal) == [url |-> url, internal |-> internal]

RECURSIVE potential_urls(_)
potential_urls(links) ==
    IF links = <<>> THEN <<>>
    ELSE (IF Head(links).internal THEN <<>> ELSE <<Head(links).url>>) \o potential_urls(Tail(links))

(* for url in variations: check_url_exists(url), up to the end of the lock block *)
get_company_domain_check(t) ==
    /\ pc[t] = "domain"
    /\ \E url \in frame[t].todo :
        LET fr == [frame[t] EXCEPT !.todo = @ \ {url}, !.cand_probed = @ \cup {url},
                                   !.late_probes = @ + Cardinality(frame[t].cand_true)] IN
        /\ processed_urls' = mark_processed(url)
        /\ IF cache_hit(url)
           THEN Goto(t, "domain", fr)
           ELSE Goto(t, "domain_head", [fr EXCEPT !.url = url])
    /\ UNCHANGED <<world, head_requests, driver>>

after_candidate_found_continue(fr) == "domain"

(* if self.check_url_exists(url): return url *)
after_candidate_found(fr) == "linkedin"

(* the HEAD request of that call, and "return url" when it answers 200 *)
get_company_domain_head(t) ==
    /\ pc[t] = "domain_head"
    /\ head_requests' = Incr(head_requests, frame[t].url)
    /\ IF head_status_200(frame[t].url)
       THEN Goto(t, after_candidate_found(frame[t]),
                 [frame[t] EXCEPT !.true_for = Append(@, frame[t].url),
                                  !.website = frame[t].url, !.todo = {}, !.url = NoUrl,
                                  !.cand_true = @ \cup {frame[t].url}, !.cand_probed = {}])
       ELSE Goto(t, "domain", [frame[t] EXCEPT !.url = NoUrl])
    /\ UNCHANGED <<world, processed_urls, driver>>

(* Fallback to Google search: the GET and the parse *)
get_company_domain_search(t) ==
    /\ pc[t] = "domain"
    /\ frame[t].todo = {}
    /\ \/ \E links \in web.search :
            Goto(t, "search", [frame[t] EXCEPT !.queue = potential_urls(links), !.searched = TRUE])
       \/ Goto(t, "no_website", [frame[t] EXCEPT !.searched = TRUE])
    /\ UNCHANGED <<world, processed_urls, head_requests, driver>>

get_company_domain_search_check(t) ==
    /\ pc[t] = "search"
    /\ frame[t].queue # <<>>
    /\ LET url == Head(frame[t].queue) IN
        /\ processed_urls' = mark_processed(url)
        /\ IF cache_hit(url)
           THEN Goto(t, "search", [frame[t] EXCEPT !.queue = Tail(@)])
           ELSE Goto(t, "search_head", [frame[t] EXCEPT !.queue = Tail(@), !.url = url])
    /\ UNCHANGED <<world, head_requests, driver>>

get_company_domain_search_head(t) ==
    /\ pc[t] = "search_head"
    /\ head_requests' = Incr(head_requests, frame[t].url)
    /\ IF head_status_200(frame[t].url)
       THEN Goto(t, "linkedin",
                 [frame[t] EXCEPT !.true_for = Append(@, frame[t].url),
                                  !.website = frame[t].url, !.queue = <<>>, !.url = NoUrl,
                                  !.search_accepted = frame[t].url])
       ELSE Goto(t, "search", [frame[t] EXCEPT !.url = NoUrl])
    /\ UNCHANGED <<world, processed_urls, driver>>

(* return None *)
get_company_domain_none(t) ==
    /\ pc[t] = "search"
    /\ frame[t].queue = <<>>
    /\ Goto(t, "no_website", frame[t])
    /\ UNCHANGED <<world, processed_urls, head_requests, driver>>

(* get_company_info: if not website: return None *)
get_company_info_no_website(t) ==
    /\ pc[t] = "no_website"
    /\ Goto(t, "done", [frame[t] EXCEPT !.result = <<>>])
    /\ UNCHANGED <<world, processed_urls, head_requests, driver>>

-----------------------------------------------------------------------------
(* LeadGenerator.find_linkedin_profile: two searches, no shared state *)

find_linkedin_profile(t) ==
    /\ pc[t] = "linkedin"
    /\ \E href \in web.profiles :
        Goto(t, "contact", [frame[t] EXCEPT !.linkedin = href, !.i = 1])
    /\ UNCHANGED <<world, processed_urls, head_requests, driver>>

-----------------------------------------------------------------------------
(* LeadGenerator.find_contact_page *)

after_common_path_first_only(fr) == "contact_home"

(* where the loop over common_paths goes after path i failed *)
after_common_path(fr) ==
    IF fr.i = Len(common_paths) THEN "contact_home" ELSE "contact"

find_contact_page_check(t) ==
    /\ pc[t] = "contact"
    /\ LET contact_url == urljoin(frame[t].website, common_paths[frame[t].i]) IN
        /\ processed_urls' = mark_processed(contact_url)
        /\ IF cache_hit(contact_url)
           THEN Goto(t, after_common_path(frame[t]),
                     [frame[t] EXCEPT !.i = @ + 1, !.probes = @ + 1, !.failed_common = @ + 1])
           ELSE Goto(t, "contact_head",
                     [frame[t] EXCEPT !.url = contact_url, !.probes = @ + 1])
    /\ UNCHANGED <<world, head_requests, driver>>

find_contact_page_head(t) ==
    /\ pc[t] = "contact_head"
    /\ head_requests' = Incr(head_requests, frame[t].url)
    /\ IF head_status_200(frame[t].url)
       THEN Goto(t, "extract",
                 [frame[t] EXCEPT !.true_for = Append(@, frame[t].url),
                                  !.contact_page = frame[t].url, !.ok = @ \cup {frame[t].url},
                                  !.i = 1, !.url = NoUrl])
       ELSE Goto(t, after_common_path(frame[t]),
                 [frame[t] EXCEPT !.i = @ + 1, !.failed_common = @ + 1, !.url = NoUrl])
    /\ UNCHANGED <<world, processed_urls, driver>>

(* set(possible_links): the hrefs whose text or href holds a contact keyword *)
possible_links(page) == { l.href : l \in { k \in page.links : k.words \cap contact_keywords # {} } }

(* Try to find contact links in page navigation: the GET of base_url *)
find_contact_page_fetch(t) ==
    /\ pc[t] = "contact_home"
    /\ \/ \E page \in web.pages :
            Goto(t, "contact_links",
                 [frame[t] EXCEPT !.todo = possible_links(page), !.fetched_home = TRUE])
       \/ Goto(t, "extract", [frame[t] EXCEPT !.fetched_home = TRUE, !.i = 1])
    /\ UNCHANGED <<world, processed_urls, head_requests, driver>>

(* if not link.startswith('http'): link = urljoin(base_url, link) *)
resolve(base_url, link) == IF link.host = <<>> THEN urljoin(base_url, link.path) ELSE link

find_contact_page_link_check(t) ==
    /\ pc[t] = "contact_links"
    /\ \E href \in frame[t].todo :
        LET link == resolve(frame[t].website, href) IN
        /\ processed_urls' = mark_processed(link)
        /\ IF cache_hit(link)
           THEN Goto(t, "contact_links", [frame[t] EXCEPT !.todo = @ \ {href}, !.probes = @ + 1])
           ELSE Goto(t, "contact_links_head",
                     [frame[t] EXCEPT !.todo = @ \ {href}, !.url = link, !.probes = @ + 1])
    /\ UNCHANGED <<world, head_requests, driver>>

find_contact_page_link_head(t) ==
    /\ pc[t] = "contact_links_head"
    /\ head_requests' = Incr(head_requests, frame[t].url)
    /\ IF head_status_200(frame[t].url)
       THEN Goto(t, "extract",
                 [frame[t] EXCEPT !.true_for = Append(@, frame[t].url),
                                  !.contact_page = frame[t].url, !.ok = @ \cup {frame[t].url},
                                  !.i = 1, !.todo = {}, !.url = NoUrl])
       ELSE Goto(t, "contact_links", [frame[t] EXCEPT !.url = NoUrl])
    /\ UNCHANGED <<world, processed_urls, driver>>

(* return None *)
find_contact_page_none(t) ==
    /\ pc[t] = "contact_links"
    /\ frame[t].todo = {}
    /\ Goto(t, "extract", [frame[t] EXCEPT !.i = 1])
    /\ UNCHANGED <<world, processed_urls, head_requests, driver>>

-----------------------------------------------------------------------------
(* LeadGenerator.get_company_info, steps 4 and 5 and the result *)

(* what extract_emails_from_page may return: the extraction of a served page,
   or [] when the fetch or the parse raises *)
fetched_emails == UNION { extract_emails(page) : page \in web.pages } \cup { <<>> }

email_sources(fr) ==
    <<fr.website>> \o
    (IF fr.contact_page # NoUrl /\ fr.contact_page # fr.website THEN <<fr.contact_page>> ELSE <<>>)

(* for source in email_sources: all_emails.extend(extract_emails_from_page(source)) *)
get_company_info_extract(t) ==
    /\ pc[t] = "extract"
    /\ \E emails \in fetched_emails :
        Goto(t, IF frame[t].i = Len(email_sources(frame[t])) THEN "dedupe" ELSE "extract",
             [frame[t] EXCEPT !.all_emails = @ \o emails, !.i = @ + 1])
    /\ UNCHANGED <<world, processed_urls, head_requests, driver>>

(* all_emails = list(set(all_emails)); if not all_emails: deeper search *)
get_company_info_dedupe(t) ==
    /\ pc[t] = "dedupe"
    /\ \E deduped \in Orderings(Range(frame[t].all_emails)) :
        Goto(t, IF deduped = <<>> THEN "deeper" ELSE "result",
             [frame[t] EXCEPT !.all_emails = deduped, !.gathered = deduped, !.i = 1])
    /\ UNCHANGED <<world, processed_urls, head_requests, driver>>

after_deeper_page(fr) ==
    IF fr.i = Len(deeper_pages) THEN "result" ELSE "deeper"

get_company_info_deeper_check(t) ==
    /\ pc[t] = "deeper"
    /\ LET deeper_url == urljoin(frame[t].website, deeper_pages[frame[t].i]) IN
        /\ processed_urls' = mark_processed(deeper_url)
        /\ IF cache_hit(deeper_url)
           THEN Goto(t, after_deeper_page(frame[t]),
                     [frame[t] EXCEPT !.i = @ + 1,
                                      !.deeper_probed = Append(@, deeper_pages[frame[t].i])])
           ELSE Goto(t, "deeper_head",
                     [frame[t] EXCEPT !.url = deeper_url,
                                      !.deeper_probed = Append(@, deeper_pages[frame[t].i])])
    /\ UNCHANGED <<world, head_requests, driver>>

get_company_info_deeper_head(t) ==
    /\ pc[t] = "deeper_head"
    /\ head_requests' = Incr(head_requests, frame[t].url)
    /\ IF head_status_200(frame[t].url)
       THEN Goto(t, "deeper_extract",
                 [frame[t] EXCEPT !.true_for = Append(@, frame[t].url),
                                  !.url = NoUrl,
                                  !.deeper_true = @ \cup {deeper_pages[frame[t].i]}])
       ELSE Goto(t, after_deeper_page(frame[t]), [frame[t] EXCEPT !.i = @ + 1, !.url = NoUrl])
    /\ UNCHANGED <<world, processed_urls, driver>>

after_deeper_emails_continue(fr) == "deeper"

(* break  # Stop after first successful deeper search *)
after_deeper_emails(fr) == "result"

(* deeper_emails = extract_emails_from_page(deeper_url); break on the first hit *)
get_company_info_deeper_extract(t) ==
    /\ pc[t] = "deeper_extract"
    /\ \E deeper_emails \in fetched_emails :
        IF deeper_emails # <<>>
        THEN Goto(t, after_deeper_emails(frame[t]),
                  [frame[t] EXCEPT !.all_emails = @ \o deeper_emails,
                                   !.deeper_fetched = Append(@, deeper_pages[frame[t].i])])
        ELSE Goto(t, after_deeper_page(frame[t]),
                  [frame[t] EXCEPT !.i = @ + 1,
                                   !.deeper_fetched = Append(@, deeper_pages[frame[t].i])])
    /\ UNCHANGED <<world, processed_urls, head_requests, driver>>

(* the result dict (date_collected left out) *)
lead_record(task, fr) ==
    [ company |-> task.company,
      website |-> fr.website,
      linkedin |-> IF fr.linkedin = None THEN "" ELSE fr.linkedin,
      service_category |-> task.service,
      emails |-> join(fr.all_emails),
      email_count |-> Len(fr.all_emails),
      contact_page |-> fr.contact_page,
      status |-> IF fr.all_emails # <<>> THEN "Success" ELSE "No emails found" ]

(* Prepare results; time.sleep(delay_between_requests); return result *)
get_company_info_result(t) ==
    /\ pc[t] = "result"
    /\ Goto(t, "done",
            [frame[t] EXCEPT !.result = <<lead_record(tasks[t], frame[t])>>, !.slept = TRUE])
    /\ UNCHANGED <<world, processed_urls, head_requests, driver>>

-----------------------------------------------------------------------------
(* LeadGenerator.generate_leads, save_to_csv and main *)

running == { t \in Tasks : pc[t] \notin {"new", "queued", "done"} }

(* futures.append(executor.submit(self.get_company_info, company, service)) *)
generate_leads_submit ==
    /\ main_pc = "submit"
    /\ submitted < Len(tasks)
    /\ submitted' = submitted + 1
    /\ pc' = [pc EXCEPT ![submitted + 1] = "queued"]
    /\ main_pc' = IF submitted + 1 = Len(tasks) THEN "collect" ELSE "submit"
    /\ UNCHANGED <<world, processed_urls, head_requests, frame, collected, all_leads, csv>>

pool_unbounded == TRUE

(* ThreadPoolExecutor(max_workers=max_threads): a thread is idle or can be created *)
pool_has_idle_thread == Cardinality(running) < max_threads

(* a pool thread takes the next work item: at most max_workers threads, FIFO queue *)
worker_start(t) ==
    /\ pc[t] = "queued"
    /\ \A u \in Tasks : u < t => pc[u] # "queued"
    /\ pool_has_idle_thread
    /\ Goto(t, "domain", [frame[t] EXCEPT !.todo = variations(tasks[t].company),
                                          !.cand_generated = variations(tasks[t].company),
                                          !.runs = @ + 1])
    /\ UNCHANGED <<world, processed_urls, head_requests, driver>>

(* if result: all_leads.append(result); a returned None is the empty sequence *)
collect_result_unchecked(leads, result) ==
    Append(leads, IF result = <<>> THEN [company |-> <<>>, status |-> None] ELSE result[1])

collect_result(leads, result) ==
    IF result # <<>> THEN Append(leads, result[1]) ELSE leads

(* for future in as_completed(futures): result = future.result() *)
generate_leads_collect(t) ==
    /\ main_pc = "collect"
    /\ pc[t] = "done"
    /\ t \notin collected
    /\ collected' = collected \cup {t}
    /\ all_leads' = collect_result(all_leads, frame[t].result)
    /\ UNCHANGED <<world, processed_urls, head_requests, pc, frame, main_pc, submitted, csv>>

generate_leads_return_early ==
    /\ main_pc = "collect"
    /\ main_pc' = "save"
    /\ UNCHANGED <<world, processed_urls, head_requests, pc, frame, submitted, collected, all_leads, csv>>

(* the with block ends (executor.shutdown(wait=True)); return all_leads *)
generate_leads_return ==
    /\ main_pc = "collect"
    /\ collected = Tasks
    /\ \A t \in Tasks : pc[t] = "done"
    /\ main_pc' = "save"
    /\ UNCHANGED <<world, processed_urls, head_requests, pc, frame, submitted, collected, all_leads, csv>>

NoCsv == [written |-> FALSE, rows |-> <<>>]

(* save_to_csv(leads, filename): no file for no leads; open() may fail *)
save_to_csv ==
    /\ main_pc = "save"
    /\ main_pc' = "end"
    /\ \/ all_leads # <<>> /\ csv' = [written |-> TRUE, rows |-> all_leads]
       \/ csv' = csv
    /\ UNCHANGED <<world, processed_urls, head_requests, pc, frame, submitted, collected, all_leads>>

-----------------------------------------------------------------------------
(* The thread-pool run of lead_generation.py *)

Task(company, category) == [company |-> company, service |-> service_map(category)]

company_names == {A, A_b}
categories == {"analytics"}

TaskLists ==
    UNION { [1..n -> { Task(c, k) : c \in company_names, k \in categories }] : n \in 1..MaxTasks }

Web(live, docs, search, profiles) ==
    [live |-> live, pages |-> docs, search |-> search, profiles |-> profiles]

(* Several companies at once, on a web where every site that exists has a
   /contact page and every page served shows one address *)
with_contact(sites) == sites \cup { urljoin(u, "/contact") : u \in sites }
PoolWebs ==
    { Web(with_contact(sites), { Page({l_reach}, {e_b}, {}, {}, {}) },
          { << SearchLink(u_off, FALSE) >> }, {None}) :
      sites \in SUBSET {u_a, u_off} }

(* One company, on a web of any shape *)
live_choice ==
    { u_a, u_a_b, u_off, urljoin(u_a, "/contact"), urljoin(u_a, "/team"),
      urljoin(u_a, "/company"), urljoin(u_a, "/reach-us") }
MaxLive == 2
m_a == <<"a", "@", "x", "?", "s">>
rich_pages ==
    { EmptyPage,
      Page({l_contact, l_reach, l_reach_abs, l_home, l_pricing}, {}, {}, {}, {}),
      Page({}, {e_b}, {m_a}, {e_info, e_INFO}, {e_B}) }
rich_search ==
    { <<>>,
      << SearchLink(u_off, TRUE), SearchLink(u_a, FALSE), SearchLink(u_off, FALSE) >> }
RichWebs ==
    { Web(live, rich_pages, rich_search, {None, "https://www.linkedin.com/company/ab"}) :
      live \in { w \in SUBSET live_choice : Cardinality(w) <= MaxLive } }

InitRun ==
    /\ processed_urls = {}
    /\ head_requests = << >>
    /\ pc = [t \in Tasks |-> "new"]
    /\ frame = [t \in Tasks |-> InitFrame]
    /\ main_pc = "submit"
    /\ submitted = 0
    /\ collected = {}
    /\ all_leads = <<>>
    /\ csv = NoCsv
    /\ service_i = 0
    /\ extracted = NoExtract

Init ==
    /\ \/ tasks \in TaskLists /\ web \in PoolWebs
       \/ tasks \in { l \in TaskLists : Len(l) = 1 } /\ web \in RichWebs
    /\ InitRun

(* More companies than pool threads: any companies on a web where no site
   exists, or one company several times on a web where its site may exist *)
BusyTaskLists == [1..(max_threads + 1) -> { Task(c, k) : c \in company_names, k \in categories }]
BusyWebs ==
    { Web(with_contact(sites), { Page({}, {e_b}, {}, {}, {}) }, { <<>> }, {None}) :
      sites \in SUBSET {u_a} }

(* One company, on the webs of RichWebs where only some of four URLs exist *)
FewWebs ==
    { w \in RichWebs :
        w.live \subseteq {u_a, u_off, urljoin(u_a, "/company"), urljoin(u_a, "/reach-us")} }

InitBusy ==
    /\ \/ /\ tasks \in BusyTaskLists
          /\ web \in BusyWebs
          /\ web.live = {} \/ \A i \in DOMAIN tasks : tasks[i].company = A
       \/ tasks \in { l \in TaskLists : Len(l) = 1 } /\ web \in FewWebs
    /\ InitRun

Next ==
    \/ generate_leads_submit
    \/ \E t \in Tasks : worker_start(t)
    \/ \E t \in Tasks : get_company_domain_check(t)
    \/ \E t \in Tasks : get_company_domain_head(t)
    \/ \E t \in Tasks : get_company_domain_search(t)
    \/ \E t \in Tasks : get_company_domain_search_check(t)
    \/ \E t \in Tasks : get_company_domain_search_head(t)
    \/ \E t \in Tasks : get_company_domain_none(t)
    \/ \E t \in Tasks : get_company_info_no_website(t)
    \/ \E t \in Tasks : find_linkedin_profile(t)
    \/ \E t \in Tasks : find_contact_page_check(t)
    \/ \E t \in Tasks : find_contact_page_head(t)
    \/ \E t \in Tasks : find_contact_page_fetch(t)
    \/ \E t \in Tasks : find_contact_page_link_check(t)
    \/ \E t \in Tasks : find_contact_page_link_head(t)
    \/ \E t \in Tasks : find_contact_page_none(t)
    \/ \E t \in Tasks : get_company_info_extract(t)
    \/ \E t \in Tasks : get_company_info_dedupe(t)
    \/ \E t \in Tasks : get_company_info_deeper_check(t)
    \/ \E t \in Tasks : get_company_info_deeper_head(t)
    \/ \E t \in Tasks : get_company_info_deeper_extract(t)
    \/ \E t \in Tasks : get_company_info_result(t)
    \/ \E t \in Tasks : generate_leads_collect(t)
    \/ generate_leads_return
    \/ save_to_csv

Spec == Init /\ [][Next]_vars

(* every network call returns or times out and the threads are scheduled fairly:
   a step that can be taken is eventually taken *)
SpecFair == InitBusy /\ [][Next]_vars /\ WF_vars(Next)

-----------------------------------------------------------------------------
(* lead_generation_with_agent.py: GlobalLeadGenerator.get_company_domain *)

(* str.replace('&', 'and') *)
RECURSIVE replace_amp(_)
replace_amp(s) ==
    IF s = <<>> THEN <<>>
    ELSE (IF Head(s) = "&" THEN <<"a", "n", "d">> ELSE <<Head(s)>>) \o replace_amp(Tail(s))

name_variations(company_name) ==
    << replace_space(lower(company_name), <<>>),
       replace_space(lower(company_name), <<"-">>),
       replace_amp(replace_space(lower(company_name), <<>>)),
       lower(initials(company_name, TRUE)) >>

(* the URLs in the order of the three nested loops: name, domain, prefix *)
candidate_urls(company_name) ==
    LET names == name_variations(company_name)
        D == Len(email_domains)
    IN  [ k \in 1..(Len(names) * D * 2) |->
            Url((IF (k - 1) % 2 = 1 THEN www ELSE <<>>)
                    \o names[((k - 1) \div (2 * D)) + 1]
                    \o dot \o email_domains[(((k - 1) \div 2) % D) + 1], "") ]

(* a result of the search tool: a dict that may have a 'url' *)
SearchResult(has_url, url) == [has_url |-> has_url, url |-> url]

(* the first result with a 'url' that holds one of email_domains as a substring *)
RECURSIVE first_accepted(_)
first_accepted(results) ==
    IF results = <<>> THEN NoUrl
    ELSE IF Head(results).has_url
            /\ \E d \in DOMAIN email_domains : Contains(Head(results).url.host, email_domains[d])
         THEN Head(results).url
         ELSE first_accepted(Tail(results))

global_get_company_domain_check(t) ==
    /\ pc[t] = "g_domain"
    /\ frame[t].queue # <<>>
    /\ LET url == Head(frame[t].queue)
           fr == [frame[t] EXCEPT !.queue = Tail(@), !.cand_probed = @ \cup {url},
                                  !.late_probes = @ + Cardinality(frame[t].cand_true)] IN
        /\ processed_urls' = mark_processed(url)
        /\ IF cache_hit(url)
           THEN Goto(t, "g_domain", fr)
           ELSE Goto(t, "g_domain_head", [fr EXCEPT !.url = url])
    /\ UNCHANGED <<world, head_requests, driver>>

global_get_company_domain_head(t) ==
    /\ pc[t] = "g_domain_head"
    /\ head_requests' = Incr(head_requests, frame[t].url)
    /\ IF head_status_200(frame[t].url)
       THEN Goto(t, "g_insights",
                 [frame[t] EXCEPT !.true_for = Append(@, frame[t].url),
                                  !.website = frame[t].url, !.queue = <<>>, !.url = NoUrl,
                                  !.cand_true = @ \cup {frame[t].url}, !.cand_probed = {}])
       ELSE Goto(t, "g_domain", [frame[t] EXCEPT !.url = NoUrl])
    /\ UNCHANGED <<world, processed_urls, driver>>

(* Fallback to search API: the first accepted result is returned unprobed *)
global_get_company_domain_search(t) ==
    /\ pc[t] = "g_domain"
    /\ frame[t].queue = <<>>
    /\ \/ \E results \in web.search :
            IF first_accepted(results) # NoUrl
            THEN Goto(t, "g_insights", [frame[t] EXCEPT !.website = first_accepted(results),
                                                        !.search_accepted = first_accepted(results),
                                                        !.searched = TRUE])
            ELSE Goto(t, "g_no_website", [frame[t] EXCEPT !.searched = TRUE])
       \/ Goto(t, "g_no_website", [frame[t] EXCEPT !.searched = TRUE])
    /\ UNCHANGED <<world, processed_urls, head_requests, driver>>

(* get_company_info: if not website: return None *)
global_get_company_info_no_website(t) ==
    /\ pc[t] = "g_no_website"
    /\ Goto(t, "done", [frame[t] EXCEPT !.result = <<>>])
    /\ UNCHANGED <<world, processed_urls, head_requests, driver>>

-----------------------------------------------------------------------------
(* GlobalLeadGenerator: the collaborators *)

(* what JsonOutputParser hands back: a dict (mapping) or some other JSON value *)
Payload(mapping, items) == [mapping |-> mapping, items |-> items]
EmptyDict == Payload(TRUE, <<>>)

(* ai_enhance_company_info: the parsed payload, {} on an exception *)
ai_enhance_company_info(t) ==
    /\ pc[t] = "g_insights"
    /\ \E insights \in web.insights \cup {EmptyDict} :
        Goto(t, "g_api", [frame[t] EXCEPT !.ai_insights = insights])
    /\ UNCHANGED <<world, processed_urls, head_requests, driver>>

(* search_emails_with_api: the lists it may return for the addresses the regex
   finds in the results' contents *)
api_emails(found) ==
    LET emails == { lower(e) : e \in { f \in found : ~ignored(f) } }
    IN  { Prefix(o, max_emails_per_company) : o \in Orderings(emails) }

(* api_emails = await search_emails_with_api(company_name, website);
   emails.update(api_emails); if len(emails) < max_emails_per_company: ... *)
search_emails_with_api(t) ==
    /\ pc[t] = "g_api"
    /\ \E found \in web.api :
        \E list \in api_emails(found) \cup { <<>> } :
            Goto(t, IF Len(list) < max_emails_per_company THEN "g_contact" ELSE "g_result",
                 [frame[t] EXCEPT !.emails = Range(list), !.i = 1])
    /\ UNCHANGED <<world, processed_urls, head_requests, driver>>

-----------------------------------------------------------------------------
(* GlobalLeadGenerator.find_contact_page: the whole body runs in one try *)

global_contact_keywords == {"contact", "about", "team", "connect", "reach", "sales"}
global_common_paths == << "/contact", "/contact-us", "/about/contact", "/connect" >>

global_after_common_path(fr) ==
    IF fr.i = Len(global_common_paths) THEN "g_contact_home" ELSE "g_contact"

global_find_contact_page_check(t) ==
    /\ pc[t] = "g_contact"
    /\ LET contact_url == urljoin(frame[t].website, global_common_paths[frame[t].i]) IN
        /\ processed_urls' = mark_processed(contact_url)
        /\ IF cache_hit(contact_url)
           THEN Goto(t, global_after_common_path(frame[t]), [frame[t] EXCEPT !.i = @ + 1])
           ELSE Goto(t, "g_contact_head", [frame[t] EXCEPT !.url = contact_url])
    /\ UNCHANGED <<world, head_requests, driver>>

global_find_contact_page_head(t) ==
    /\ pc[t] = "g_contact_head"
    /\ head_requests' = Incr(head_requests, frame[t].url)
    /\ IF head_status_200(frame[t].url)
       THEN Goto(t, "g_scrape",
                 [frame[t] EXCEPT !.true_for = Append(@, frame[t].url),
                                  !.contact_page = frame[t].url, !.i = 1, !.url = NoUrl])
       ELSE Goto(t, global_after_common_path(frame[t]),
                 [frame[t] EXCEPT !.i = @ + 1, !.url = NoUrl])
    /\ UNCHANGED <<world, processed_urls, driver>>

(* hrefs that start with mailto:, tel: or javascript: are no contact links *)
schemes == { <<"mailto:">>, <<"tel:">>, <<"javascript:">> }
l_mailto == Link(Url(<<"mailto:">>, ""), {"contact"})

global_contact_links(page) ==
    { l.href : l \in { k \in page.links : /\ k.words \cap global_contact_keywords # {}
                                          /\ k.href.host \notin schemes } }

(* Analyze homepage for contact links; a failed GET ends in the except: None *)
global_find_contact_page_fetch(t) ==
    /\ pc[t] = "g_contact_home"
    /\ \/ \E page \in web.pages :
            Goto(t, "g_contact_links",
                 [frame[t] EXCEPT !.todo = global_contact_links(page), !.i = 1])
       \/ Goto(t, "g_result", [frame[t] EXCEPT !.i = 1])
    /\ UNCHANGED <<world, processed_urls, head_requests, driver>>

global_find_contact_page_link_check(t) ==
    /\ pc[t] = "g_contact_links"
    /\ \E href \in frame[t].todo :
        LET link == resolve(frame[t].website, href) IN
        /\ processed_urls' = mark_processed(link)
        /\ IF cache_hit(link)
           THEN Goto(t, "g_contact_links", [frame[t] EXCEPT !.todo = @ \ {href}])
           ELSE Goto(t, "g_contact_links_head",
                     [frame[t] EXCEPT !.todo = @ \ {href}, !.url = link])
    /\ UNCHANGED <<world, head_requests, driver>>

global_find_contact_page_link_head(t) ==
    /\ pc[t] = "g_contact_links_head"
    /\ head_requests' = Incr(head_requests, frame[t].url)
    /\ IF head_status_200(frame[t].url)
       THEN Goto(t, "g_scrape",
                 [frame[t] EXCEPT !.true_for = Append(@, frame[t].url),
                                  !.contact_page = frame[t].url, !.todo = {}, !.url = NoUrl])
       ELSE Goto(t, "g_contact_links", [frame[t] EXCEPT !.url = NoUrl])
    /\ UNCHANGED <<world, processed_urls, driver>>

(* return None: get_company_info scrapes nothing *)
global_find_contact_page_none(t) ==
    /\ pc[t] = "g_contact_links"
    /\ frame[t].todo = {}
    /\ Goto(t, "g_result", frame[t])
    /\ UNCHANGED <<world, processed_urls, head_requests, driver>>

-----------------------------------------------------------------------------
(* GlobalLeadGenerator.get_company_info: scraping and the result *)

global_fetched_emails == UNION { global_extract_emails(page) : page \in web.pages } \cup { <<>> }

(* scraped_emails = self.extract_emails_from_page(contact_page); emails.update(...) *)
global_get_company_info_scrape(t) ==
    /\ pc[t] = "g_scrape"
    /\ \E scraped_emails \in global_fetched_emails :
        Goto(t, "g_result", [frame[t] EXCEPT !.emails = @ \cup Range(scraped_emails)])
    /\ UNCHANGED <<world, processed_urls, head_requests, driver>>

(* result = {'company': ..., ..., 'status': ..., **ai_insights}: the keys of
   ai_insights come last and replace equal keys of the literal *)
merge(base, items) ==
    [ k \in DOMAIN base \cup DOMAIN items |-> IF k \in DOMAIN items THEN items[k] ELSE base[k] ]

global_lead_record(task, fr, list) ==
    merge([ company     |-> task.company,
            website     |-> fr.website,
            service     |-> task.service,
            emails      |-> join(Prefix(list, max_emails_per_company)),
            email_count |-> Cardinality(fr.emails),
            status      |-> IF fr.emails # {} THEN "Success" ELSE "Partial" ],
          fr.ai_insights.items)

(* the dict display raises TypeError when ai_insights is not a mapping; nothing
   in get_company_info or generate_leads catches it *)
global_get_company_info_result(t) ==
    /\ pc[t] = "g_result"
    /\ IF frame[t].ai_insights.mapping
       THEN \E list \in Orderings(frame[t].emails) :
                Goto(t, "done",
                     [frame[t] EXCEPT !.result = << global_lead_record(tasks[t], frame[t], list) >>,
                                      !.slept = TRUE])
       ELSE Goto(t, "raised", frame[t])
    /\ UNCHANGED <<world, processed_urls, head_requests, driver>>

-----------------------------------------------------------------------------
(* GlobalLeadGenerator.generate_leads and main: one coroutine awaited at a time *)

MaxServices == 2
SERVICES ==
    << "Advanced Analytics", "Account Based Marketing", "Sales & Marketing Automation",
       "HubSpot Excellence", "CRM Migration", "CRM Strategy" >>
(* the run goes through the first MaxServices of SERVICES *)
services == Prefix(SERVICES, MaxServices)

company_limit == 15

(* an item of the suggested list that is JSON but no string *)
NotAString == <<"0">>
is_str(company) == company # NotAString

GlobalTask(company, service_name) == [company |-> company, service |-> service_name]

idle == main_pc = "run" /\ collected = Tasks

(* companies = await self.ai_suggest_companies(service_name): list(set(payload)),
   [] on an exception; the loop takes companies[:15] *)
ai_suggest_companies ==
    /\ idle
    /\ service_i < Len(services)
    /\ \E payload \in web.companies \cup { <<>> } :
        \E companies \in Orderings(Range(payload)) :
            LET top == Prefix(companies, company_limit) IN
            /\ tasks' = tasks \o [ k \in 1..Len(top) |-> GlobalTask(top[k], services[service_i + 1]) ]
            /\ pc' = pc \o [ k \in 1..Len(top) |-> "new" ]
            /\ frame' = frame \o [ k \in 1..Len(top) |-> InitFrame ]
    /\ service_i' = service_i + 1
    /\ UNCHANGED <<web, extracted, processed_urls, head_requests, driver>>

(* lead = await self.get_company_info(company, service_name): get_company_domain
   starts with company_name.lower(), outside every try *)
global_get_company_info(t) ==
    /\ main_pc = "run"
    /\ t = Cardinality(collected) + 1
    /\ pc[t] = "new"
    /\ IF is_str(tasks[t].company)
       THEN Goto(t, "g_domain",
                 [frame[t] EXCEPT !.queue = candidate_urls(tasks[t].company),
                                  !.cand_generated = Range(candidate_urls(tasks[t].company))])
       ELSE Goto(t, "raised", frame[t])
    /\ UNCHANGED <<world, processed_urls, head_requests, driver>>

(* if lead: all_leads.append(lead) *)
global_generate_leads_collect(t) ==
    /\ main_pc = "run"
    /\ pc[t] = "done"
    /\ t \notin collected
    /\ collected' = collected \cup {t}
    /\ all_leads' = collect_result(all_leads, frame[t].result)
    /\ UNCHANGED <<world, processed_urls, head_requests, pc, frame, main_pc, submitted, csv>>

(* an exception of the awaited coroutine leaves generate_leads and main *)
global_generate_leads_raise(t) ==
    /\ main_pc = "run"
    /\ pc[t] = "raised"
    /\ main_pc' = "raised"
    /\ UNCHANGED <<world, processed_urls, head_requests, pc, frame, submitted, collected,
                   all_leads, csv>>

(* return all_leads *)
global_generate_leads_return ==
    /\ idle
    /\ service_i = Len(services)
    /\ main_pc' = "save"
    /\ UNCHANGED <<world, processed_urls, head_requests, pc, frame, submitted, collected,
                   all_leads, csv>>

(* save_leads_to_csv(leads): no file for no leads; open() may fail *)
save_leads_to_csv ==
    /\ main_pc = "save"
    /\ main_pc' = "end"
    /\ \/ all_leads # <<>> /\ csv' = [written |-> TRUE, rows |-> all_leads]
       \/ csv' = csv
    /\ UNCHANGED <<world, processed_urls, head_requests, pc, frame, submitted, collected, all_leads>>

-----------------------------------------------------------------------------
(* The run of lead_generation_with_agent.py *)

GlobalWeb(live, pages, search, companies, insights, api) ==
    [ live |-> live, pages |-> pages, search |-> search,
      companies |-> companies, insights |-> insights, api |-> api ]

u_de == Url(<<"x", ".", "d", "e">>, "")
global_pages == { EmptyPage, Page({l_reach, l_mailto}, {e_B, e_c}, {m_a}, {e_info}, {}) }
global_search ==
    { <<>>, << SearchResult(FALSE, NoUrl), SearchResult(TRUE, u_de), SearchResult(TRUE, u_off) >> }
suggestions == { {<<A>>}, {<<A_b, A_b>>}, {<<A, NotAString>>} }
insight_payloads ==
    { {Payload(TRUE, [reasons |-> "r"])},
      {Payload(TRUE, [status |-> "Success"])},
      {Payload(FALSE, <<>>)} }
api_results == { {{}}, {{e_b, e_B, e_info}} }

GlobalWebs ==
    { GlobalWeb(live, global_pages, global_search, companies, insights, api) :
        live \in { w \in SUBSET live_choice : Cardinality(w) <= MaxLive },
        companies \in suggestions, insights \in insight_payloads, api \in api_results }

InitAI ==
    /\ tasks = <<>>
    /\ web \in GlobalWebs
    /\ processed_urls = {}
    /\ head_requests = << >>
    /\ pc = <<>>
    /\ frame = <<>>
    /\ main_pc = "run"
    /\ submitted = 0
    /\ collected = {}
    /\ all_leads = <<>>
    /\ csv = NoCsv
    /\ service_i = 0
    /\ extracted = NoExtract

NextAI ==
    \/ ai_suggest_companies
    \/ \E t \in Tasks : global_get_company_info(t)
    \/ \E t \in Tasks : global_get_company_domain_check(t)
    \/ \E t \in Tasks : global_get_company_domain_head(t)
    \/ \E t \in Tasks : global_get_company_domain_search(t)
    \/ \E t \in Tasks : global_get_company_info_no_website(t)
    \/ \E t \in Tasks : ai_enhance_company_info(t)
    \/ \E t \in Tasks : search_emails_with_api(t)
    \/ \E t \in Tasks : global_find_contact_page_check(t)
    \/ \E t \in Tasks : global_find_contact_page_head(t)
    \/ \E t \in Tasks : global_find_contact_page_fetch(t)
    \/ \E t \in Tasks : global_find_contact_page_link_check(t)
    \/ \E t \in Tasks : global_find_contact_page_link_head(t)
    \/ \E t \in Tasks : global_find_contact_page_none(t)
    \/ \E t \in Tasks : global_get_company_info_scrape(t)
    \/ \E t \in Tasks : global_get_company_info_result(t)
    \/ \E t \in Tasks : global_generate_leads_collect(t)
    \/ \E t \in Tasks : global_generate_leads_raise(t)
    \/ global_generate_leads_return
    \/ save_leads_to_csv

SpecAI == InitAI /\ [][NextAI]_vars

-----------------------------------------------------------------------------
(* extract_emails_from_page on its own, on any page of a bounded family *)

e_d == <<"d", "@", "x">>
m_noreply == <<"n", "o", "r", "e", "p", "l", "y", "@", "x">>
ExtractPages ==
    { Page({}, text, mailto, form, elements) :
        text \in SUBSET {e_b, e_B, e_INFO}, mailto \in SUBSET {m_a, m_noreply},
        form \in SUBSET {e_info, e_c}, elements \in SUBSET {e_d} }

InitExtract ==
    /\ tasks = <<>>
    /\ web \in { Web({}, {page}, {}, {}) : page \in ExtractPages }
    /\ InitRun

(* how the try block ends: with the list computed, or with an exception of the
   GET or of a parsing step while emails holds what was gathered so far *)
Outcome(failed, emails) == [failed |-> failed, raised |-> failed, emails |-> emails]
try_block(lists) == { Outcome(failed, emails) : failed \in BOOLEAN, emails \in lists }

except_absent(outcome) == outcome

(* except Exception as e: self.log_error(...); return [] *)
except_return_empty(outcome) ==
    IF outcome.raised THEN [outcome EXCEPT !.raised = FALSE, !.emails = <<>>] ELSE outcome

(* LeadGenerator.extract_emails_from_page(url): the list returned, [] on an exception *)
extract_emails_from_page ==
    /\ \E page \in web.pages :
        \E outcome \in try_block(extract_emails(page)) :
            LET r == except_return_empty(outcome) IN
            extracted' = [by |-> "LeadGenerator", page |-> page, emails |-> r.emails,
                          failed |-> r.failed, raised |-> r.raised]
    /\ UNCHANGED <<tasks, web, service_i, processed_urls, head_requests, pc, frame, driver>>

(* GlobalLeadGenerator.extract_emails_from_page(url) *)
global_extract_emails_from_page ==
    /\ \E page \in web.pages :
        \E outcome \in try_block(global_extract_emails(page)) :
            LET r == except_return_empty(outcome) IN
            extracted' = [by |-> "GlobalLeadGenerator", page |-> page, emails |-> r.emails,
                          failed |-> r.failed, raised |-> r.raised]
    /\ UNCHANGED <<tasks, web, service_i, processed_urls, head_requests, pc, frame, driver>>

NextExtract ==
    \/ extract_emails_from_page
    \/ global_extract_emails_from_page

SpecExtract == InitExtract /\ [][NextExtract]_vars

(* C3: a list returned by extract_emails_from_page holds no address that has an
   ignore pattern as a case-insensitive substring, and at most
   max_emails_per_company addresses *)
C3_FilteredAndBounded ==
    extracted.by # None =>
        /\ Len(extracted.emails) <= max_emails_per_company
        /\ \A i \in 1..Len(extracted.emails) :
               \A pattern \in ignore_email_patterns :
                   ~Contains(lower(extracted.emails[i]), pattern)

(* a page with an upper-case ignored address and more addresses than the
   maximum, cut to the maximum *)
C3_Witness ==
    /\ extracted.by = "LeadGenerator"
    /\ e_INFO \in extracted.page.text
    /\ {e_b, e_B, e_c, e_d} \subseteq
           extracted.page.text \cup extracted.page.form \cup extracted.page.elements
    /\ Len(extracted.emails) = max_emails_per_company

-----------------------------------------------------------------------------
(* Properties of the thread-pool run *)

HeadPcs == {"domain_head", "search_head", "contact_head", "contact_links_head", "deeper_head"}
InDomain == {"domain", "domain_head", "search", "search_head"}
InContact == {"contact", "contact_head", "contact_home", "contact_links", "contact_links_head"}
NotStarted == {"new", "queued"}

(* C1: at most one HEAD request is issued per URL, and a URL is in
   processed_urls before its HEAD request is issued *)
C1_OneHeadPerUrl ==
    /\ \A u \in DOMAIN head_requests : head_requests[u] <= 1 /\ u \in processed_urls
    /\ \A t \in Tasks : pc[t] \in HeadPcs => frame[t].url \in processed_urls

(* two calls of get_company_domain for the same company have both gone through
   every candidate, and each candidate got one HEAD request *)
C1_Witness ==
    \E t1, t2 \in Tasks :
        /\ t1 # t2 /\ tasks[t1].company = tasks[t2].company
        /\ pc[t1] = "done" /\ pc[t2] = "done"
        /\ frame[t1].website = NoUrl /\ frame[t2].website = NoUrl
        /\ \A u \in variations(tasks[t1].company) :
                u \in DOMAIN head_requests /\ head_requests[u] = 1

(* C2 as claimed: once get_company_domain has returned for a company with exactly
   one live candidate URL, the URL it returned is that candidate *)
C2_ReturnsTheLiveCandidate ==
    \A t \in Tasks :
        pc[t] \notin NotStarted \cup InDomain =>
            \A u \in variations(tasks[t].company) :
                variations(tasks[t].company) \cap web.live = {u} => frame[t].website = u

(* C7: the list generate_leads builds holds one record per consumed task whose
   domain resolved, and none for the others *)
Resolved(t) == frame[t].website # NoUrl
C7_OneRecordPerResolvedTask ==
    /\ Len(all_leads) = Cardinality({ t \in collected : Resolved(t) })
    /\ main_pc \in {"save", "end"} =>
            Len(all_leads) = Cardinality({ t \in Tasks : Resolved(t) })

C7_Witness ==
    /\ main_pc = "end"
    /\ \E t1, t2 \in Tasks : Resolved(t1) /\ ~Resolved(t2)
    /\ Len(all_leads) = 1

(* C8: find_contact_page returns only a URL for which check_url_exists returned
   True in this call; it fetches the homepage and probes its links only after
   every common path has failed; after the first success it has returned *)
C8_ContactPageOrder ==
    \A t \in Tasks :
        /\ frame[t].contact_page # NoUrl => frame[t].ok = {frame[t].contact_page}
        /\ frame[t].ok # {} =>
                /\ pc[t] \notin InContact
                /\ frame[t].ok = {frame[t].contact_page}
                /\ frame[t].ok \subseteq web.live
        /\ (frame[t].fetched_home \/ pc[t] \in {"contact_home", "contact_links", "contact_links_head"}) =>
                frame[t].failed_common = Len(common_paths)
        /\ frame[t].probes > Len(common_paths) => frame[t].fetched_home
        /\ frame[t].failed_common <= frame[t].probes

(* a contact page found among the homepage links *)
C8_Witness ==
    \E t \in Tasks :
        /\ frame[t].contact_page # NoUrl
        /\ frame[t].fetched_home
        /\ frame[t].probes > Len(common_paths)

(* C9: the table is written, and generate_leads has returned, only when every
   get_company_info call has returned *)
C9_CsvAfterAllTasks ==
    (csv.written \/ main_pc \in {"save", "end"}) =>
        /\ \A t \in Tasks : pc[t] = "done"
        /\ collected = Tasks

C9_Witness ==
    /\ csv.written
    /\ Len(tasks) >= 2
    /\ Len(csv.rows) >= 2

(* the records get_company_info has returned *)
Returned == { frame[t].result[1] : t \in { u \in Tasks : frame[u].result # <<>> } }

(* C4 as claimed: a returned record lists at most max_emails_per_company addresses *)
C4_AtMostMaxEmails ==
    \A r \in Returned : Len(listed(r.emails)) <= max_emails_per_company

(* C5 as claimed: no two addresses of a returned record are equal after lower-casing *)
C5_DedupedIgnoringCase ==
    \A r \in Returned :
        \A i, j \in 1..Len(listed(r.emails)) :
            lower(listed(r.emails)[i]) = lower(listed(r.emails)[j]) => i = j

(* C6: in every record that get_company_info returns, status is 'Success'
   exactly when the final e-mail set is non-empty and the no-emails value
   ('Partial' in GlobalLeadGenerator) otherwise, whatever payload the
   text-generation collaborator returned *)
C6_StatusSuccessIffEmails ==
    \A t \in Tasks :
        frame[t].result # <<>> =>
            LET r == frame[t].result[1] IN
            /\ (r.status = "Success") <=> (frame[t].emails # {})
            /\ frame[t].emails = {} => r.status = "Partial"

(* C10: no failure before the sink write is fatal: whatever the collaborators
   fail with or return, generate_leads does not raise *)
C10_GenerateLeadsNeverRaises == main_pc # "raised"

(* C11: every get_company_info call that has returned, with a record or with
   None, has performed the delay of delay_between_requests before returning *)
C11_DelayBeforeEveryReturn ==
    \A t \in Tasks : pc[t] = "done" => frame[t].slept

(* C12: extract_emails_from_page never propagates an error: a call whose fetch
   or parsing raised returns the empty list, and no call changes processed_urls *)
C12_ExtractNeverPropagates ==
    /\ [](extracted.by # None =>
             /\ ~extracted.raised
             /\ extracted.failed => extracted.emails = <<>>)
    /\ [][extracted' # extracted => processed_urls' = processed_urls]_vars

(* a call on a page that shows addresses, whose parsing raised *)
C12_Witness ==
    /\ extracted.by # None
    /\ extracted.failed
    /\ e_b \in extracted.page.text

(* C13: under fair scheduling generate_leads eventually returns; by then every
   submitted task has been run by get_company_info exactly once; and at no
   moment are more than max_threads executions in progress *)
C13_TerminatesOncePerTask ==
    /\ <>(main_pc \in {"save", "end"})
    /\ [](main_pc \in {"save", "end"} =>
             \A t \in Tasks : pc[t] = "done" /\ frame[t].runs = 1)
    /\ [](\A t \in Tasks : frame[t].runs <= 1)
    /\ [](Cardinality(running) <= max_threads)

(* the pool is full while a submitted task waits in the queue *)
C13_Witness ==
    /\ Cardinality(running) = max_threads
    /\ \E t \in Tasks : pc[t] = "queued"

(* C14: in LeadGenerator.get_company_info the deeper paths are probed only when
   the website and the contact page gave no address; they are probed in the
   order of the list; a page is fetched only after its own probe returned True;
   and once a fetched page yields an address no further path is probed or fetched *)
C14_DeeperRetry ==
    \A t \in Tasks :
        LET fr == frame[t] IN
        /\ fr.deeper_probed # <<>> => fr.gathered = <<>>
        /\ Len(fr.deeper_probed) <= Len(deeper_pages)
        /\ \A k \in 1..Len(fr.deeper_probed) : fr.deeper_probed[k] = deeper_pages[k]
        /\ Range(fr.deeper_fetched) \subseteq fr.deeper_true
        /\ fr.deeper_true \subseteq Range(fr.deeper_probed)
        /\ (fr.gathered = <<>> /\ fr.all_emails # <<>> /\ pc[t] \in {"result", "done"}) =>
               /\ fr.deeper_fetched # <<>>
               /\ fr.deeper_fetched[Len(fr.deeper_fetched)] = fr.deeper_probed[Len(fr.deeper_probed)]

(* two deeper paths failed their probe, the third was fetched and gave an
   address, and the call returned without touching the last two *)
C14_Witness ==
    \E t \in Tasks :
        /\ pc[t] = "done"
        /\ frame[t].deeper_probed = << "/about", "/team", "/company" >>
        /\ frame[t].deeper_fetched = << "/company" >>
        /\ frame[t].all_emails # <<>>

DomainReturned(t) ==
    /\ pc[t] \notin NotStarted \cup InDomain \cup {"g_domain", "g_domain_head"}
    /\ ~(pc[t] = "raised" /\ frame[t].cand_generated = {})

(* C15: get_company_domain queries the search only after every generated
   candidate URL was probed without success; it probes no candidate after one
   succeeded; and it returns None exactly when neither the candidate phase nor
   the search fallback ended with an accepted URL *)
C15_SearchOnlyAfterCandidates ==
    \A t \in Tasks :
        LET fr == frame[t] IN
        /\ fr.searched => fr.cand_probed = fr.cand_generated /\ fr.cand_true = {}
        /\ fr.late_probes = 0
        /\ Cardinality(fr.cand_true) <= 1
        /\ fr.cand_true \subseteq fr.cand_generated
        /\ DomainReturned(t) =>
               /\ (fr.website = NoUrl) <=>
                      (fr.cand_true = {} /\ fr.searched /\ fr.search_accepted = NoUrl)
               /\ fr.website # NoUrl => fr.website \in fr.cand_true \cup {fr.search_accepted}

(* every candidate of a two-word company name failed its probe, and the search
   fallback gave the website *)
C15_Witness ==
    \E t \in Tasks :
        /\ pc[t] = "done"
        /\ frame[t].searched
        /\ Cardinality(frame[t].cand_generated) >= 4
        /\ frame[t].cand_probed = frame[t].cand_generated
        /\ frame[t].website = frame[t].search_accepted
        /\ frame[t].website # NoUrl

(* C16: check_url_exists returns True at most once for any URL in a run; so in
   LeadGenerator no two records of the list generate_leads returns have the
   same website, and no record's contact_page equals its website *)
C16_TrueAtMostOncePerUrl ==
    /\ \A t \in Tasks :
           \A i, j \in 1..Len(frame[t].true_for) :
               frame[t].true_for[i] = frame[t].true_for[j] => i = j
    /\ \A t, u \in Tasks :
           t # u => Range(frame[t].true_for) \cap Range(frame[u].true_for) = {}
    /\ \A i, j \in 1..Len(all_leads) :
           all_leads[i].website = all_leads[j].website => i = j
    /\ \A i \in 1..Len(all_leads) : all_leads[i].contact_page # all_leads[i].website

(* two tasks for one company have returned and the run has ended with a record
   whose contact page was probed after its website *)
C16_Witness ==
    /\ main_pc = "end"
    /\ \E t, u \in Tasks : t # u /\ tasks[t].company = tasks[u].company
    /\ \E i \in 1..Len(all_leads) :
           all_leads[i].website = u_a /\ all_leads[i].contact_page # NoUrl

(* a homepage link that points at the website itself has been probed *)
HomeLinkProbed ==
    \E t \in Tasks :
        /\ pc[t] = "contact_links"
        /\ frame[t].website = u_a
        /\ u_a \notin frame[t].todo
        /\ frame[t].probes = Len(common_paths) + Cardinality(possible_links(
               Page({l_contact, l_reach, l_reach_abs, l_home, l_pricing}, {}, {}, {}, {})))

(* C17: in every record get_company_info returns, email_count is the number of
   addresses the record's emails field lists *)
C17_EmailCountMatchesField ==
    \A r \in Returned : r.email_count = Len(listed(r.emails))

====
